---- MODULE Spec2Model ----
(***************************************************************************)
(* Shortlist-build controller of dj-ai-shortlist (src/engine.py).          *)
(*                                                                         *)
(* Strings are sequences of one-character strings, so that split, strip,   *)
(* replace and join are computed character by character.  A catalog track  *)
(* is a function whose DOMAIN is the set of keys present in the JSON       *)
(* record, so `"url" in track` is "url" \in DOMAIN track.  Floats are      *)
(* fixed-point integers: sub-scores in 1/1000, weights in 1/100, scores    *)
(* and the threshold in 1/100000, bass in units of 1e-6.                   *)
(***************************************************************************)
EXTENDS Integers, Sequences, FiniteSets, TLC

VARIABLES
    pc,               \* position of build_shortlist_from_djdownload
    error,            \* exception that propagated out of the call
    genres,           \* argument genres
    selected_years,   \* argument selected_years
    threshold,        \* argument threshold (1/100000)
    start_page,       \* argument start_page
    end_page,         \* argument end_page
    has_progress,     \* progress_callback is not None
    has_stop,         \* stop_flag is not None
    example_profile,  \* local example_profile
    kept,             \* local kept
    page,             \* loop variable page
    tracks,           \* what the inner loop has yet to take of local tracks
    track,            \* loop variable track
    attempt,          \* loop variable attempt of stream_track
    audio_path,       \* local audio_path (0 is None)
    features,         \* local features
    score,            \* local score
    cache,            \* files in CACHE_ROOT
    output,           \* files under output_folder: path -> file
    result,           \* value returned by the call
    progress,         \* calls received by progress_callback, in order
    fetched,          \* pages passed to fetch_tracks, in order
    skip,             \* why the last track iteration ended
    polled,           \* what the last evaluation of the stop check gave
    failures,         \* transport failures so far
    served,           \* tracks the catalog has listed so far
    examples,         \* features of the readable files of examples_folder
    origin            \* where each entry of kept was listed: <<page, rank>>

vars == <<pc, error, genres, selected_years, threshold, start_page, end_page,
          has_progress, has_stop, example_profile, kept, page, tracks,
          track, attempt, audio_path, features, score, cache, output,
          result, progress, fetched, skip, polled, failures, served,
          examples, origin>>

----------------------------------------------------------------------------
(* Bounds of the model *)

MaxPage == 2
MaxTracks == 2
MaxFailures == 3
MaxCatalog == 3
MaxExamples == 4

----------------------------------------------------------------------------
(* Python values *)

None == <<"None">>
NoneRec == [none |-> TRUE]
NoPath == 0

Max(a, b) == IF a >= b THEN a ELSE b
Abs(a) == IF a >= 0 THEN a ELSE 0 - a

\* dict.get(key) with the default None
Get(d, k) == IF k \in DOMAIN d THEN d[k] ELSE None

\* truth value of a str-or-None
Truthy(s) == s # None /\ s # <<>>

\* str.replace(old, new) for a one-character old
Replace(s, old, new) == [i \in 1..Len(s) |-> IF s[i] = old THEN new ELSE s[i]]

RECURSIVE LStrip(_)
LStrip(s) == IF s # <<>> /\ Head(s) = " " THEN LStrip(Tail(s)) ELSE s

RECURSIVE RStrip(_)
RStrip(s) ==
    IF s # <<>> /\ s[Len(s)] = " " THEN RStrip(SubSeq(s, 1, Len(s) - 1)) ELSE s

\* str.strip()
Strip(s) == RStrip(LStrip(s))

RECURSIVE SplitHead(_, _)
\* str.split(sep)[0] for a one-character sep
SplitHead(s, sep) ==
    IF s = <<>> \/ Head(s) = sep THEN <<>>
    ELSE <<Head(s)>> \o SplitHead(Tail(s), sep)

RECURSIVE Join(_, _)
\* sep.join(names)
Join(sep, names) ==
    IF names = <<>> THEN <<>>
    ELSE IF Len(names) = 1 THEN names[1]
    ELSE names[1] \o sep \o Join(sep, Tail(names))

----------------------------------------------------------------------------
(* Strings used by the inputs *)

Techno == <<"T","e","c","h","n","o">>
TechHouse == <<"T","e","c","h"," ","H","o","u","s","e">>
AfroHouse == <<"A","f","r","o"," ","H","o","u","s","e">>
ProgressiveHouse ==
    <<"P","r","o","g","r","e","s","s","i","v","e"," ","H","o","u","s","e">>
MelodicHouse == <<"M","e","l","o","d","i","c"," ","H","o","u","s","e">>
DrumAndBass == <<"D","r","u","m"," ","&"," ","B","a","s","s">>

Older == <<"O","l","d","e","r">>
Y2024 == <<"2","0","2","4">>
Date2024 == <<"2","0","2","4","-","0","5","-","0","1">>
Date2025 == <<"2","0","2","5","-","0","1","-","1","5">>

----------------------------------------------------------------------------
(* Inputs: what the catalog, the example folder and the extractor can give *)

TrackFull ==
    [genre |-> TechHouse, release_date |-> Date2024,
     title |-> <<"a","/","b"," ">>, url |-> <<"u","1">>,
     artists |-> <<[name |-> <<"X">>], [id |-> <<"7">>], [name |-> <<"Y">>]>>]
TrackBare == [title |-> <<"a">>, url |-> <<"u","2">>]
TrackTechno ==
    [genre |-> Techno, release_date |-> Date2025, title |-> <<"a">>,
     url |-> <<"u","3">>, artists |-> <<>>]
TrackNoUrl ==
    [genre |-> TechHouse, release_date |-> Date2024, title |-> <<"a">>]
TrackNoTitle == [genre |-> TechHouse, url |-> <<"u","5">>]

TrackSet == {TrackFull, TrackBare, TrackTechno, TrackNoUrl, TrackNoTitle}

\* the lists a catalog page can hold
PageSet == UNION {[1..n -> TrackSet] : n \in 0..MaxTracks}

GenresSet == {{}, {TechHouse}}
YearsSet == {{}, {Y2024}, {Older}}
ThresholdSet == {50000}

FeatA ==
    [bpm |-> 124, rhythm |-> 150, key |-> "A", brightness |-> 2000,
     bass |-> 500000]
FeatC ==
    [bpm |-> 140, rhythm |-> 90, key |-> "C", brightness |-> 3200,
     bass |-> 250000]
FeatureSet == {FeatA, FeatC}

\* the feature lists the example folder can yield (unreadable files left out)
FolderSet == {<<>>, <<FeatA>>}

FeatG ==
    [bpm |-> 128, rhythm |-> 120, key |-> "G", brightness |-> 2600,
     bass |-> 300000]

\* a silent file: no onset strength, no spectrum, no bass energy
FeatZero ==
    [bpm |-> 60, rhythm |-> 0, key |-> "C", brightness |-> 0, bass |-> 0]
\* a loud and fast file
FeatFar ==
    [bpm |-> 180, rhythm |-> 400, key |-> "B", brightness |-> 9000,
     bass |-> 1500000]

\* the feature vectors similarity_score is applied to
ScoreFeatures == {FeatA, FeatC, FeatG, FeatZero, FeatFar}

\* example folders of up to MaxExamples readable files
ExampleLists == UNION {[1..n -> {FeatA, FeatC, FeatG}] : n \in 0..MaxExamples}

----------------------------------------------------------------------------
(* Artist extraction *)

IsNamedDict(a) == "name" \in DOMAIN a

RECURSIVE Names(_)
Names(artists) ==
    IF artists = <<>> THEN <<>>
    ELSE IF IsNamedDict(Head(artists))
         THEN <<Head(artists).name>> \o Names(Tail(artists))
         ELSE Names(Tail(artists))

extract_artist_from_track(t) ==
    IF "artists" \in DOMAIN t
    THEN Join(<<",", " ">>, Names(t.artists))
    ELSE <<>>

----------------------------------------------------------------------------
(* Example profile *)

RECURSIVE SumOf(_, _)
SumOf(fs, k) == IF fs = <<>> THEN 0 ELSE Head(fs)[k] + SumOf(Tail(fs), k)

Mean(fs, k) == SumOf(fs, k) \div Len(fs)

Count(fs, key) == Cardinality({i \in 1..Len(fs) : fs[i].key = key})

\* max(set(keys), key=keys.count): the first key of greatest count in the
\* iteration order of the set, which is any key of greatest count
ModeKeys(fs) ==
    {fs[i].key : i \in {j \in 1..Len(fs) :
        \A m \in 1..Len(fs) : Count(fs, fs[m].key) <= Count(fs, fs[j].key)}}

Profile(fs, k) ==
    [bpm |-> Mean(fs, "bpm"), rhythm |-> Mean(fs, "rhythm"),
     brightness |-> Mean(fs, "brightness"), bass |-> Mean(fs, "bass"),
     key |-> k, count |-> Len(fs)]

----------------------------------------------------------------------------
(* Similarity *)

\* a retry loop of one attempt too many
StreamRetriesOffByOne == 3 + 1

MAX_STREAM_RETRIES == 3

W(b, r, s, t, k) ==
    [bpm |-> b, rhythm |-> r, bass |-> s, brightness |-> t, key |-> k]

GENRE_WEIGHTS ==
    (AfroHouse :> W(20, 35, 25, 10, 10)) @@
    (ProgressiveHouse :> W(20, 20, 10, 30, 20)) @@
    (MelodicHouse :> W(20, 20, 10, 30, 20)) @@
    (TechHouse :> W(30, 35, 20, 5, 10)) @@
    (DrumAndBass :> W(40, 30, 20, 5, 5)) @@
    (Techno :> W(30, 40, 20, 5, 5))

\* a default row that has lost part of its key weight
DefaultWeightsShort == W(25, 30, 20, 15, 5)

DEFAULT_WEIGHTS == W(25, 30, 20, 15, 10)

\* a sub-score cut off at -1 in place of 0
SubScoreCutAtMinusOne(a, b, d) ==
    Max(0 - 1000, 1000 - (Abs(a - b) * 1000) \div d)

\* max(0.0, 1 - abs(a - b) / d) in 1/1000
SubScore(a, b, d) == Max(0, 1000 - (Abs(a - b) * 1000) \div d)

\* lines 202-208: bpm_score, rhythm_score, brightness_score, bass_score and
\* key_score
SubScores(example, candidate) ==
    [bpm |-> SubScore(example.bpm, candidate.bpm, 30),
     rhythm |-> SubScore(example.rhythm, candidate.rhythm, 120),
     brightness |->
         SubScore(example.brightness, candidate.brightness, 2500),
     bass |-> SubScore(example.bass, candidate.bass, example.bass + 1),
     key |-> IF example.key = candidate.key THEN 1000 ELSE 0]

similarity_score(example, candidate, genre) ==
    LET w == IF genre \in DOMAIN GENRE_WEIGHTS
             THEN GENRE_WEIGHTS[genre] ELSE DEFAULT_WEIGHTS
        s == SubScores(example, candidate)
    IN  w.bpm * s.bpm + w.rhythm * s.rhythm + w.bass * s.bass
        + w.brightness * s.brightness + w.key * s.key

\* round(score, 3), in 1/1000, halves to even
Round3(s) ==
    LET q == s \div 100
        r == s % 100
    IN  IF r > 50 \/ (r = 50 /\ q % 2 = 1) THEN q + 1 ELSE q

----------------------------------------------------------------------------
(* Controller: helpers *)

\* the genre filter left out
GenreFilterDropped(t, gs) == FALSE

\* line 262
GenreFilterSkips(t, gs) == gs # {} /\ Get(t, "genre") \notin gs

\* lines 265-270
YearFilterSkips(t, years) ==
    LET release_date == Get(t, "release_date") IN
    /\ Truthy(release_date)
    /\ Older \notin years
    /\ SplitHead(release_date, "-") \notin years

\* line 272
MissingField(t) == "url" \notin DOMAIN t \/ "title" \notin DOMAIN t

\* lines 290-297
GenreDir(genre) == Replace(genre, " ", "_")

FileName(artist, title) ==
    Replace(IF artist # <<>>
            THEN artist \o <<" ", "-", " ">> \o title \o <<".", "m", "p", "3">>
            ELSE title \o <<".", "m", "p", "3">>,
            "/", "_")

TargetPath(t) ==
    <<GenreDir(t.genre),
      FileName(extract_artist_from_track(t), Strip(t.title))>>

\* a move that leaves the output tree as it was
MoveFileLost(out, path, f) == out

\* shutil.move(audio_path, target): the target is replaced when it exists
MoveFile(out, path, f) == (path :> f) @@ out

\* a discard that deletes nothing
UnlinkForgotten(files, f) == files

\* Path.unlink(missing_ok=True)
Unlink(files, f) == files \ {f}

\* lines 301-306
Entry(t, sc) ==
    [artist |-> extract_artist_from_track(t), title |-> Strip(t.title),
     genre |-> t.genre, score |-> Round3(sc)]

\* tempfile.NamedTemporaryFile(delete=False, dir=CACHE_ROOT): a file that
\* does not exist yet
Range(f) == {f[x] : x \in DOMAIN f}
NewFile(files, out) ==
    CHOOSE n \in 1..(Cardinality(files) + Cardinality(DOMAIN out) + 1) :
        /\ n \notin files \cup Range(out)
        /\ \A m \in 1..(n - 1) : m \in files \cup Range(out)

\* lines 311-314
ScanResult(ks) == [kept |-> Len(ks), tracks |-> ks]

\* what stop_flag and stop_flag() can evaluate to
StopValues == IF has_stop THEN BOOLEAN ELSE {FALSE}

\* the outer for statement takes its next page, or the loop is exhausted
NextPage ==
    IF page < end_page
    THEN /\ page' = page + 1
         /\ pc' = "page_top"
         /\ UNCHANGED result
    ELSE /\ pc' = "done"
         /\ result' = ScanResult(kept)
         /\ UNCHANGED page

\* a stop check that reports and goes on with the page
BreakOuterMissing == pc' = "progress" /\ UNCHANGED result

\* lines 243-244: the break of the outer loop, then the return of lines 311-314
BreakOuter == pc' = "stopped" /\ result' = ScanResult(kept)

\* a progress event whose total is the last page number
ProgressEventTotalToEnd ==
    [current_page |-> page, total_pages |-> end_page,
     kept_count |-> Len(kept)]

\* lines 238 and 247-251: the keyword arguments of progress_callback
ProgressEvent ==
    [current_page |-> page, total_pages |-> end_page - start_page + 1,
     kept_count |-> Len(kept)]

\* app.py lines 256-258: the fraction handed to the progress bar, in 1/1000
progress_callback(event) == (event.current_page * 1000) \div event.total_pages

\* an append that puts the new entry in front
ListAppendInFront(ks, e) == <<e>> \o ks

\* line 301: kept.append
ListAppend(ks, e) == Append(ks, e)

\* continue: back to the head of the inner for statement
NextTrack == pc' = "track_top"

----------------------------------------------------------------------------
(* Controller: steps *)

Init ==
    /\ pc = "start"
    /\ error = ""
    /\ genres \in GenresSet
    /\ selected_years \in YearsSet
    /\ threshold \in ThresholdSet
    /\ start_page \in 1..MaxPage
    /\ end_page \in start_page..MaxPage
    /\ has_progress \in BOOLEAN
    /\ has_stop \in BOOLEAN
    /\ example_profile = NoneRec
    /\ kept = <<>>
    /\ page = 0
    /\ tracks = <<>>
    /\ track = NoneRec
    /\ attempt = 0
    /\ audio_path = NoPath
    /\ features = NoneRec
    /\ score = 0
    /\ cache = {}
    /\ output = <<>>
    /\ result = NoneRec
    /\ progress = <<>>
    /\ fetched = <<>>
    /\ skip = ""
    /\ polled = FALSE
    /\ failures = 0
    /\ served = 0
    /\ examples \in FolderSet
    /\ origin = <<>>

\* line 235: analyze_examples_folder, then lines 237-240
AnalyzeExamples ==
    /\ pc = "start"
    /\ LET fs == examples IN
        IF fs = <<>>
        THEN /\ pc' = "failed"
             /\ error' = "RuntimeError"
             /\ UNCHANGED <<example_profile, page>>
        ELSE /\ \E k \in ModeKeys(fs) : example_profile' = Profile(fs, k)
             /\ page' = start_page
             /\ pc' = "page_top"
             /\ UNCHANGED error
    /\ UNCHANGED <<examples, origin>>
    /\ UNCHANGED <<genres, selected_years, threshold, start_page, end_page,
                   has_progress, has_stop, kept, tracks, track, attempt,
                   audio_path, features, score, cache, output, result,
                   progress, fetched, skip, polled, failures, served>>

\* lines 242-244, and the return of lines 311-314 after the break
CheckStopPage ==
    /\ pc = "page_top"
    /\ \E b \in StopValues :
        /\ polled' = b
        /\ IF b
           THEN BreakOuter
           ELSE pc' = "progress" /\ UNCHANGED result
    /\ UNCHANGED <<examples, origin>>
    /\ UNCHANGED <<error, genres, selected_years, threshold, start_page,
                   end_page, has_progress, has_stop, example_profile, kept,
                   page, tracks, track, attempt, audio_path, features,
                   score, cache, output, progress, fetched, skip, failures,
                   served>>

\* lines 246-251
EmitProgress ==
    /\ pc = "progress"
    /\ progress' =
         IF has_progress
         THEN Append(progress, ProgressEvent)
         ELSE progress
    /\ pc' = "fetch_page"
    /\ UNCHANGED <<examples, origin>>
    /\ UNCHANGED <<error, genres, selected_years, threshold, start_page,
                   end_page, has_progress, has_stop, example_profile, kept,
                   page, tracks, track, attempt, audio_path, features,
                   score, cache, output, result, fetched, skip, polled,
                   failures, served>>

\* line 253: fetch_tracks (lines 130-134) returns a list or raises
FetchPage ==
    /\ pc = "fetch_page"
    /\ fetched' = Append(fetched, page)
    /\ \/ /\ pc' = "failed"
          /\ error' = "HTTPError"
          /\ UNCHANGED <<tracks, served>>
       \/ /\ \E ts \in PageSet :
                /\ served + Len(ts) <= MaxCatalog
                /\ tracks' = ts
                /\ served' = served + Len(ts)
          /\ pc' = "track_top"
          /\ UNCHANGED error
    /\ UNCHANGED <<examples, origin>>
    /\ UNCHANGED <<genres, selected_years, threshold, start_page, end_page,
                   has_progress, has_stop, example_profile, kept, page,
                   track, attempt, audio_path, features, score, cache,
                   output, result, progress, skip, polled, failures>>

\* lines 255-273: the head of the inner loop, the stop check and the filters
TrackTop ==
    /\ pc = "track_top"
    /\ IF tracks = <<>>
       THEN NextPage /\ UNCHANGED <<tracks, track, skip, attempt, polled>>
       ELSE /\ track' = Head(tracks)
            /\ \E b \in StopValues :
                /\ polled' = b
                /\ IF b
                   THEN /\ NextPage
                        /\ skip' = "cancel"
                        /\ UNCHANGED <<tracks, attempt>>
                   ELSE /\ tracks' = Tail(tracks)
                        /\ UNCHANGED <<page, result>>
                        /\ IF GenreFilterSkips(track', genres)
                           THEN NextTrack /\ skip' = "genre"
                                /\ UNCHANGED attempt
                           ELSE IF YearFilterSkips(track', selected_years)
                           THEN NextTrack /\ skip' = "year"
                                /\ UNCHANGED attempt
                           ELSE IF MissingField(track')
                           THEN NextTrack /\ skip' = "missing"
                                /\ UNCHANGED attempt
                           ELSE pc' = "stream" /\ attempt' = 1 /\ skip' = ""
    /\ UNCHANGED <<examples, origin>>
    /\ UNCHANGED <<error, genres, selected_years, threshold, start_page,
                   end_page, has_progress, has_stop, example_profile, kept,
                   audio_path, features, score, cache, output, progress,
                   fetched, failures, served>>

\* lines 142-171: one attempt of stream_track, which creates its temporary
\* file and then succeeds or raises; after the last failed attempt
\* stream_track returns None and lines 277-278 skip the track
StreamAttempt ==
    /\ pc = "stream"
    /\ \/ /\ cache' = cache \cup {NewFile(cache, output)}
          /\ audio_path' = NewFile(cache, output)
          /\ attempt' = 0
          /\ pc' = "analyze"
          /\ UNCHANGED <<skip, failures>>
       \/ /\ failures < MaxFailures
          /\ failures' = failures + 1
          /\ cache' = cache \cup {NewFile(cache, output)}
          /\ IF attempt < MAX_STREAM_RETRIES
             THEN /\ attempt' = attempt + 1
                  /\ UNCHANGED <<pc, audio_path, skip>>
             ELSE /\ audio_path' = NoPath
                  /\ attempt' = 0
                  /\ skip' = "nofile"
                  /\ NextTrack
    /\ UNCHANGED <<examples, origin>>
    /\ UNCHANGED <<error, genres, selected_years, threshold, start_page,
                   end_page, has_progress, has_stop, example_profile, kept,
                   page, tracks, track, features, score, output, result,
                   progress, fetched, polled, served>>

\* lines 280-288 and 308-309: analyze_track, similarity_score, the threshold
Analyze ==
    /\ pc = "analyze"
    /\ \/ /\ features' = NoneRec
          /\ cache' = Unlink(cache, audio_path)
          /\ skip' = "noanalysis"
          /\ NextTrack
          /\ UNCHANGED score
       \/ \E f \in FeatureSet :
          /\ features' = f
          /\ score' = similarity_score(example_profile, f, Get(track, "genre"))
          /\ IF score' >= threshold
             THEN pc' = "commit" /\ UNCHANGED <<cache, skip>>
             ELSE /\ cache' = Unlink(cache, audio_path)
                  /\ skip' = "lowscore"
                  /\ NextTrack
    /\ UNCHANGED <<examples, origin>>
    /\ UNCHANGED <<error, genres, selected_years, threshold, start_page,
                   end_page, has_progress, has_stop, example_profile, kept,
                   page, tracks, track, attempt, audio_path, output, result,
                   progress, fetched, polled, failures, served>>

\* lines 290-299: genre.replace raises on a track without genre
Commit ==
    /\ pc = "commit"
    /\ IF Get(track, "genre") = None
       THEN /\ pc' = "failed"
            /\ error' = "AttributeError"
            /\ UNCHANGED <<cache, output>>
       ELSE /\ output' = MoveFile(output, TargetPath(track), audio_path)
            /\ cache' = cache \ {audio_path}
            /\ pc' = "append"
            /\ UNCHANGED error
    /\ UNCHANGED <<examples, origin>>
    /\ UNCHANGED <<genres, selected_years, threshold, start_page, end_page,
                   has_progress, has_stop, example_profile, kept, page,
                   tracks, track, attempt, audio_path, features, score,
                   result, progress, fetched, skip, polled, failures,
                   served>>

\* lines 301-306
AppendEntry ==
    /\ pc = "append"
    /\ kept' = ListAppend(kept, Entry(track, score))
    /\ origin' = Append(origin, <<page, served - Len(tracks)>>)
    /\ skip' = "kept"
    /\ UNCHANGED examples
    /\ NextTrack
    /\ UNCHANGED <<error, genres, selected_years, threshold, start_page,
                   end_page, has_progress, has_stop, example_profile, page,
                   tracks, track, attempt, audio_path, features, score,
                   cache, output, result, progress, fetched, polled,
                   failures, served>>

Next ==
    \/ AnalyzeExamples
    \/ CheckStopPage
    \/ EmitProgress
    \/ FetchPage
    \/ TrackTop
    \/ StreamAttempt
    \/ Analyze
    \/ Commit
    \/ AppendEntry

Spec == Init /\ [][Next]_vars

\* analyze_examples_folder on its own: the folder is drawn from ExampleLists
InitProfile ==
    /\ pc = "start"
    /\ error = ""
    /\ genres = {}
    /\ selected_years = {Older}
    /\ threshold \in ThresholdSet
    /\ start_page = 1
    /\ end_page = 1
    /\ has_progress = FALSE
    /\ has_stop = FALSE
    /\ example_profile = NoneRec
    /\ kept = <<>>
    /\ page = 0
    /\ tracks = <<>>
    /\ track = NoneRec
    /\ attempt = 0
    /\ audio_path = NoPath
    /\ features = NoneRec
    /\ score = 0
    /\ cache = {}
    /\ output = <<>>
    /\ result = NoneRec
    /\ progress = <<>>
    /\ fetched = <<>>
    /\ skip = ""
    /\ polled = FALSE
    /\ failures = 0
    /\ served = 0
    /\ examples \in ExampleLists
    /\ origin = <<>>

NextProfile == AnalyzeExamples

\* tracks by genre: every row of the weight table, a genre without a row and
\* a track without genre
ScoreTracks ==
    {[genre |-> g] : g \in DOMAIN GENRE_WEIGHTS \cup {<<"P","o","p">>}}
        \cup {TrackBare}

\* similarity_score on its own: a reference profile of one example, a
\* candidate and a track drawn from the sets above
InitScore ==
    /\ pc = "score"
    /\ error = ""
    /\ genres = {}
    /\ selected_years = {Older}
    /\ threshold \in ThresholdSet
    /\ start_page = 1
    /\ end_page = 1
    /\ has_progress = FALSE
    /\ has_stop = FALSE
    /\ examples \in {<<f>> : f \in ScoreFeatures}
    /\ example_profile = Profile(examples, examples[1].key)
    /\ kept = <<>>
    /\ page = 1
    /\ tracks = <<>>
    /\ track \in ScoreTracks
    /\ attempt = 0
    /\ audio_path = NoPath
    /\ features \in ScoreFeatures
    /\ score = 0
    /\ cache = {}
    /\ output = <<>>
    /\ result = NoneRec
    /\ progress = <<>>
    /\ fetched = <<>>
    /\ skip = ""
    /\ polled = FALSE
    /\ failures = 0
    /\ served = 0
    /\ origin = <<>>

\* line 286
Score ==
    /\ pc = "score"
    /\ score' = similarity_score(example_profile, features, Get(track, "genre"))
    /\ pc' = "scored"
    /\ UNCHANGED <<error, genres, selected_years, threshold, start_page,
                   end_page, has_progress, has_stop, example_profile, kept,
                   page, tracks, track, attempt, audio_path, features, cache,
                   output, result, progress, fetched, skip, polled, failures,
                   served, examples, origin>>

NextScore == Score

SpecScore == InitScore /\ [][NextScore]_vars

SpecProfile == InitProfile /\ [][NextProfile]_vars

TypeOK ==
    /\ pc \in {"start", "page_top", "progress", "fetch_page", "track_top",
               "stream", "analyze", "commit", "append", "done", "stopped",
               "failed"}
    /\ attempt \in 0..MAX_STREAM_RETRIES

----------------------------------------------------------------------------
(* Properties *)

InFlight == pc \in {"stream", "analyze", "commit", "append"}

BetweenTracks ==
    pc \in {"page_top", "progress", "fetch_page", "track_top", "done",
            "stopped"}

Returned == pc \in {"done", "stopped"}

\* C1: a page fetch that fails is treated as a page of zero tracks: every
\* page fetch is followed by the track loop of that page, no exception leaves
\* the call and the entries committed so far are retained.
C1_FailedPageIsEmptyPage ==
    [][pc = "fetch_page" =>
        /\ pc' = "track_top"
        /\ error' = ""
        /\ kept' = kept]_vars

\* C2: when the stop check at the top of a page iteration is true the scan
\* stops: the call returns exactly the entries committed so far, nothing is
\* fetched, emitted or written in that step or after it, and the pages
\* fetched are those before the page at which the check was true.
C2_StopAtPageTop ==
    /\ [][(pc = "page_top" /\ polled') =>
            /\ pc' = "stopped"
            /\ result' = ScanResult(kept)
            /\ UNCHANGED <<kept, fetched, progress, cache, output>>]_vars
    /\ [][pc # "stopped"]_vars
    /\ [](pc = "stopped" =>
            /\ result = ScanResult(kept)
            /\ fetched = [i \in 1..(page - start_page) |-> start_page + i - 1])

C2_Witness ==
    /\ pc = "stopped"
    /\ page > start_page
    /\ Len(fetched) = 1
    /\ result.kept >= 1

\* C3: stream_track leaves no file behind on failure: when an attempt after
\* the first starts the cache holds no file of the failed attempts, and when
\* stream_track has returned None the cache holds no file at all (the cache
\* starts empty and every returned file has been moved or deleted).
C3_NoFileLeftOnFailure ==
    /\ (pc = "stream" /\ attempt > 1) => cache = {}
    /\ (pc = "track_top" /\ skip = "nofile") => cache = {}

\* C4: between two tracks and after the return, the file the last fetch
\* returned is not in the cache, and it is in the output tree exactly when
\* the extraction succeeded and the score reached the threshold; the stop
\* check is not evaluated while a track is between its fetch and its
\* commit or discard.
C4_NoPayloadOutlivesTrack ==
    /\ []((BetweenTracks /\ audio_path # NoPath) =>
            /\ audio_path \notin cache
            /\ (audio_path \in Range(output)
                  <=> (features # NoneRec /\ score >= threshold)))
    /\ [][InFlight => (polled' = polled /\ pc' \notin {"stopped", "done"})]_vars

C4_Witness ==
    /\ pc = "track_top"
    /\ skip = "lowscore"
    /\ audio_path # NoPath
    /\ audio_path \notin cache
    /\ Cardinality(DOMAIN output) = 1

\* C5: a track with a release_date that reaches the year filter is skipped
\* by it exactly when the requested years are non-empty, do not contain
\* "Older" and do not contain the year of the track.
C5_YearFilterExact ==
    (/\ track # NoneRec
     /\ skip \notin {"cancel", "genre"}
     /\ "release_date" \in DOMAIN track)
    => (skip = "year"
          <=> /\ selected_years # {}
              /\ Older \notin selected_years
              /\ SplitHead(track.release_date, "-") \notin selected_years)

\* what C6 excludes: a genre that is not requested, or no title or no url
ExcludedTrack(t) ==
    \/ genres # {} /\ "genre" \in DOMAIN t /\ t.genre \notin genres
    \/ "title" \notin DOMAIN t
    \/ "url" \notin DOMAIN t

\* C6: no audio fetch is attempted for a track whose genre is not among the
\* requested genres or that lacks title or url: such a track is never in
\* flight, its iteration leaves kept, the cache and the output tree as they
\* were, and unless the stop check ends the page the next track is taken.
C6_NoFetchForExcludedTrack ==
    /\ [](InFlight => ~ExcludedTrack(track))
    /\ [][(pc = "track_top" /\ tracks # <<>> /\ ExcludedTrack(Head(tracks))) =>
            /\ pc' # "stream"
            /\ UNCHANGED <<kept, cache, output, audio_path>>
            /\ (~polled' => (pc' = "track_top" /\ tracks' = Tail(tracks)))]_vars

C6_Witness ==
    /\ pc = "track_top"
    /\ skip \in {"genre", "missing"}
    /\ ExcludedTrack(track)
    /\ tracks # <<>>
    /\ kept # <<>>

\* C7: a track that has title and url and passes the filters ends in commit
\* or discard and the scan continues: the processing of a track in flight
\* leads to the next step of that track or back to the head of the track
\* loop, never out of the call.
C7_TrackProcessingAbsorbed ==
    [][InFlight => (pc' \in {"stream", "analyze", "commit", "append",
                             "track_top"} /\ error' = "")]_vars

\* C8: one stream_track call makes at most 3 attempts, makes no attempt
\* after a successful one, and returns None exactly when the third attempt
\* failed; None makes the controller skip the track, kept unchanged, and go
\* on with the next track.
C8_RetryBound ==
    /\ [](pc = "stream" => attempt \in 1..3)
    /\ [][pc = "stream" =>
            /\ (failures' = failures =>
                  (pc' = "analyze" /\ audio_path' \in cache'))
            /\ (failures' # failures /\ attempt < 3 =>
                  (pc' = "stream" /\ attempt' = attempt + 1))
            /\ ((skip' = "nofile" /\ audio_path' = NoPath)
                  <=> (failures' # failures /\ attempt = 3))
            /\ (skip' = "nofile" =>
                  (pc' = "track_top" /\ kept' = kept /\ tracks' = tracks
                   /\ output' = output /\ error' = ""))]_vars

C8_Witness ==
    /\ pc = "track_top"
    /\ skip = "nofile"
    /\ audio_path = NoPath
    /\ failures = 3
    /\ tracks # <<>>

\* the output path of an entry
EntryPath(e) == <<GenreDir(e.genre), FileName(e.artist, e.title)>>

\* C9: every entry in kept has a file at its place in the output tree, an
\* entry is appended only after the fetched file was moved there, and the
\* returned kept is the length of the returned tracks.
C9_EntryHasFileInPlace ==
    /\ [](\A i \in 1..Len(kept) : EntryPath(kept[i]) \in DOMAIN output)
    /\ [](result # NoneRec =>
            (result.kept = Len(result.tracks) /\ result.tracks = kept))
    /\ [][kept' # kept =>
            /\ Len(kept') = Len(kept) + 1
            /\ SubSeq(kept', 1, Len(kept)) = kept
            /\ EntryPath(kept'[Len(kept')]) \in DOMAIN output
            /\ output[EntryPath(kept'[Len(kept')])] = audio_path
            /\ audio_path \notin cache
            /\ output' = output]_vars

C9_Witness ==
    /\ pc = "progress"
    /\ Len(kept) = 2
    /\ Cardinality(DOMAIN output) = 1

\* C10: when the call has returned, the output tree, empty at the start,
\* holds as many files as the result has entries.
C10_OneFilePerEntry ==
    Returned => Cardinality(DOMAIN output) = result.kept

\* the entry listed at o comes before the entry listed at q: a lower page, or
\* the same page at an earlier place of its listing
ListedBefore(o, q) == o[1] < q[1] \/ (o[1] = q[1] /\ o[2] < q[2])

\* C11: the entries of the result are in page-then-listing order: of any two
\* entries the earlier one was listed on a lower page, or on the same page at
\* an earlier place; the list changes only by one entry appended at its end,
\* so no entry is reordered, removed or changed.
C11_PageThenListingOrder ==
    [][/\ Len(origin') = Len(kept')
       /\ \A i, j \in 1..Len(origin') :
            i < j => ListedBefore(origin'[i], origin'[j])
       /\ kept' # kept =>
            /\ Len(kept') = Len(kept) + 1
            /\ SubSeq(kept', 1, Len(kept)) = kept
       /\ pc' \in {"done", "stopped"} => result'.tracks = kept']_vars

\* two different entries are returned, the second from a later page
C11_Witness ==
    /\ pc \in {"done", "stopped"}
    /\ Len(result.tracks) = 2
    /\ result.tracks[1] # result.tracks[2]
    /\ origin[1][1] < origin[2][1]

\* C12: with a progress sink, each page whose iteration starts with the stop
\* check false gets exactly one progress event, emitted before that page is
\* fetched, carrying the page number, end_page - start_page + 1 and the number
\* of entries committed so far; over a run current_page strictly increases
\* and kept_count never decreases.
C12_OneProgressEventPerPage ==
    [][has_progress =>
        /\ (pc = "page_top" /\ ~polled') => pc' = "progress"
        /\ pc = "progress" =>
             /\ progress' =
                  Append(progress,
                         [current_page |-> page,
                          total_pages |-> end_page - start_page + 1,
                          kept_count |-> Len(kept)])
             /\ fetched' = fetched
             /\ pc' = "fetch_page"
        /\ progress' # progress => pc = "progress"
        /\ fetched' # fetched =>
             /\ pc = "fetch_page"
             /\ fetched' = Append(fetched, page)
             /\ Len(progress) = Len(fetched')
             /\ progress[Len(progress)].current_page = page
        /\ \A i, j \in 1..Len(progress') :
             i < j =>
               /\ progress'[i].current_page < progress'[j].current_page
               /\ progress'[i].kept_count <= progress'[j].kept_count]_vars

\* the second page is fetched after its event, which counts an entry more
\* than the event of the first page
C12_Witness ==
    /\ has_progress
    /\ Len(fetched) = 2
    /\ Len(progress) = 2
    /\ progress[1].kept_count < progress[2].kept_count

\* the track passes the genre filter and the year filter and has a title and
\* a stream URL
Admitted(t) ==
    /\ ~GenreFilterSkips(t, genres)
    /\ ~YearFilterSkips(t, selected_years)
    /\ ~MissingField(t)

\* C13: acceptance is exact.  With no stop request and no failed page fetch,
\* a track yields an entry if and only if it passes the genre and year
\* filters, has a title and a stream URL, its fetch returns a file, its
\* extraction succeeds and its score is at least the threshold; pages that
\* list no track give kept = 0 and no entry.
C13_AcceptanceExact ==
    [][/\ (pc = "track_top" /\ tracks # <<>> /\ ~polled') =>
            (pc' = "stream" <=> Admitted(Head(tracks)))
       /\ (pc = "stream" /\ pc' # "stream") =>
            (pc' = "analyze" <=> audio_path' # NoPath)
       /\ pc = "analyze" =>
            (pc' = "commit" <=> features' # NoneRec /\ score' >= threshold)
       /\ pc = "commit" => pc' = "append"
       /\ pc = "append" => kept' = Append(kept, Entry(track, score))
       /\ kept' # kept => pc = "append"
       /\ (pc' = "done" /\ served' = 0) => result' = [kept |-> 0, tracks |-> <<>>]
      ]_vars

\* the pages start_page .. end_page in increasing order
AllPages == [i \in 1..(end_page - start_page + 1) |-> start_page + i - 1]

\* C14: a run whose profile was built, and whose fetch and extract calls
\* return, ends in DONE or STOPPED and never by an exception; it then returns
\* the entries kept so far; without a stop request it ends in DONE with every
\* page of start_page .. end_page fetched exactly once, in increasing order.
C14_RunEndsDoneOrStopped ==
    /\ (example_profile # NoneRec /\ error # "HTTPError") => pc # "failed"
    /\ Returned => result = ScanResult(kept)
    /\ pc = "stopped" => has_stop
    /\ pc = "done" /\ ~has_stop => fetched = AllPages

\* the key of greatest count that comes first in the order of the examples
FirstMode(fs) ==
    LET best == {j \in 1..Len(fs) : \A m \in 1..Len(fs) :
                    Count(fs, fs[m].key) <= Count(fs, fs[j].key)}
    IN  fs[CHOOSE j \in best : \A m \in best : j <= m].key

\* C15: the key of the reference profile is the most frequent key of the
\* analysed examples, and of several most frequent keys it is the one met
\* first in the order of the examples (keys C, C, G give C).
C15_KeyIsFirstMostFrequent ==
    example_profile # NoneRec =>
        /\ \A m \in 1..Len(examples) :
             Count(examples, examples[m].key)
                 <= Count(examples, example_profile.key)
        /\ example_profile.key = FirstMode(examples)

\* C16: for any feature vectors and any genre, every sub-score of
\* similarity_score is within [0, 1] and so is the weighted sum.
C16_ScoreInUnitInterval ==
    pc = "scored" =>
        /\ \A k \in DOMAIN SubScores(example_profile, features) :
             /\ 0 <= SubScores(example_profile, features)[k]
             /\ SubScores(example_profile, features)[k] <= 1000
        /\ 0 <= score
        /\ score <= 100000

\* a candidate so far from the reference that two sub-scores are cut to 0
\* while the score stays positive
C16_Witness ==
    /\ pc = "scored"
    /\ SubScores(example_profile, features).bpm = 0
    /\ SubScores(example_profile, features).bass = 0
    /\ score > 0

Dimensions == {"bpm", "rhythm", "bass", "brightness", "key"}

RowSum(w) == w.bpm + w.rhythm + w.bass + w.brightness + w.key

\* C17: every row of the genre weight table, and the default row, has exactly
\* the five weights and they sum to 1; so a candidate equal to the reference
\* in all five dimensions scores 1 for any genre.
C17_WeightsSumToOne ==
    /\ \A g \in DOMAIN GENRE_WEIGHTS :
         /\ DOMAIN GENRE_WEIGHTS[g] = Dimensions
         /\ RowSum(GENRE_WEIGHTS[g]) = 100
    /\ DOMAIN DEFAULT_WEIGHTS = Dimensions
    /\ RowSum(DEFAULT_WEIGHTS) = 100
    /\ (pc = "scored" /\ \A k \in Dimensions : features[k] = example_profile[k])
         => score = 100000

\* a candidate equal to the reference, scored with the default row
C17_Witness ==
    /\ pc = "scored"
    /\ \A k \in Dimensions : features[k] = example_profile[k]
    /\ Get(track, "genre") \notin DOMAIN GENRE_WEIGHTS
    /\ score = 100000

\* C18: once the stop check before a track has answered true the scan is
\* stopped, whatever the check answers afterwards: no later track is taken,
\* no later page is fetched and no later progress event is emitted.
C18_TrackStopIsFinal ==
    [][skip = "cancel" =>
        /\ fetched' = fetched
        /\ progress' = progress
        /\ track' = track
        /\ pc' \notin {"stream", "analyze", "commit", "append"}]_vars

\* C19: every progress event has 1 <= current_page <= total_pages, so the
\* fraction current_page / total_pages handed to the progress bar is within
\* [0, 1], for every request with 1 <= start_page <= end_page.
C19_ProgressFractionInRange ==
    \A i \in 1..Len(progress) :
        /\ 1 <= progress[i].current_page
        /\ progress[i].current_page <= progress[i].total_pages
        /\ 0 <= progress_callback(progress[i])
        /\ progress_callback(progress[i]) <= 1000

====
